---- MODULE Spec2Model ----
(***************************************************************************)
(* Model of the "Resonance" ripple/tone installation:                      *)
(*   - AudioService  (services/AudioService.ts, src/unnamed/part_000)      *)
(*   - App           (App.tsx, src/unnamed/part_001): the trigger          *)
(*                   dispatcher and its four input adapters                *)
(*   - RippleCanvas  (src/components/RippleCanvas.tsx): the ripple field   *)
(* JavaScript runs the handlers on one thread, so every handler, callback  *)
(* and render pass is one atomic action.                                   *)
(*                                                                         *)
(* Six specifications share the variables:                                 *)
(*   Spec      the mounted App: events reach the code through the          *)
(*             dispatcher's handlers only;                                 *)
(*   SpecAudio the exported audioService singleton driven directly through *)
(*             its public methods by an arbitrary caller;                  *)
(*   SpecField the RippleCanvas component driven through its addRipple     *)
(*             handle and its animation-frame render pass;                 *)
(*   SpecTeardown  Spec, and the App may be unmounted;                     *)
(*   SpecLoop  SpecField with requestAnimationFrame scheduling, and the    *)
(*             RippleCanvas may be unmounted;                              *)
(*   SpecVoice SpecAudio with the audio clock and the end of voices.       *)
(***************************************************************************)
EXTENDS Integers, Sequences, FiniteSets

(***************************************************************************)
(* Bounds of the model                                                     *)
(***************************************************************************)
\* ripples ever spawned in one behaviour
MaxSpawns == 2
\* voices ever created in one behaviour
MaxVoices == 2
\* canvas.width: x coordinates are 0 .. CanvasWidth-1
CanvasWidth == 2
\* ripples ever spawned in one behaviour of SpecLoop
MaxLoopSpawns == 1
\* the audio clock stops here, in tenths of a second
MaxTime == 17

(***************************************************************************)
(* Program constants                                                       *)
(***************************************************************************)
\* Ripple.maxAge, frames
MaxAge == 100
\* VISUAL_CONFIG.maxRadius, px
MaxRadius == 80
\* the start radius in Ripple.draw, px
MinRadius == 5
\* PENTATONIC_SCALE, frequencies in hundredths of a hertz
PENTATONIC_SCALE == <<29366, 34923, 39200, 44000, 52325>>
\* SIGNAL_CONFIG.oscAddress
OscAddress == "/sensor/vibration"
\* the MIDI Note On status with the channel nibble cleared (0x90)
NoteOn == 144
\* `duration` of playTone, in tenths of a second (1.5 s)
Duration == 15
\* the oscillator stops this long after the decay ends, tenths (0.1 s)
StopMargin == 1

NULL == "null"
\* an omitted (undefined) coordinate; real coordinates are >= 0
UNDEFINED == 0 - 1

VARIABLES
    audioService,   \* the AudioService singleton and the platform's view of its context
    voices,         \* oscillator+gain voices created so far, in creation order
    audioReady,     \* App state: FALSE = Locked, TRUE = Unlocked
    midiAccess,     \* "none" | "pending" | "granted" (onmidimessage set) | "denied"
    socket,         \* the bridge WebSocket: NULL | "connecting" | "open" | "closed"
    mounted,        \* the App component is mounted
    ripples,        \* ripplesRef.current
    elapsed,        \* per spawn ever made: render passes since it (history)
    drawLog,        \* the draw calls of the latest render pass (history)
    frame,          \* the requestAnimationFrame loop of RippleCanvas
    last            \* the event handled by the latest step (history)

vars == <<audioService, voices, audioReady, midiAccess, socket, mounted,
          ripples, elapsed, drawLog, frame, last>>

audioVars == <<audioService, voices>>
appVars == <<audioReady, midiAccess, socket, mounted>>
fieldVars == <<ripples, elapsed, drawLog, frame>>

(***************************************************************************)
(* AudioService                                                            *)
(*   audioService.context    NULL, or the AudioContext's state             *)
(*   audioService.isEnabled                                                *)
(*   audioService.resumePending  context.resume() was called and the       *)
(*                               platform has not settled it yet           *)
(*   audioService.created    number of AudioContext objects constructed    *)
(*   audioService.currentTime  context.currentTime, in tenths of a second  *)
(***************************************************************************)
ContextStates == {"running", "suspended"}

getContextState(a) == IF a.context # NULL THEN a.context ELSE "uninitialized"

\* init() without its `if (!this.context)` guard: every call builds a context
init_noGuard(a, fresh) ==
    LET a1 == [a EXCEPT !.context = fresh, !.isEnabled = TRUE, !.created = @ + 1]
    IN IF a1.context = "suspended"
       THEN [a1 EXCEPT !.resumePending = TRUE]
       ELSE a1

\* init() that drops a suspended context instead of resuming it
init_dropsSuspended(a, fresh) ==
    LET a1 == IF a.context = NULL
              THEN [a EXCEPT !.context = fresh, !.isEnabled = TRUE,
                             !.created = @ + 1]
              ELSE a
    IN IF a.context = "suspended"
       THEN [a1 EXCEPT !.context = NULL]
       ELSE IF a1.context = "suspended"
            THEN [a1 EXCEPT !.resumePending = TRUE]
            ELSE a1

\* init(): `fresh` is the state the platform gives a newly built context
init(a, fresh) ==
    LET a1 == IF a.context = NULL
              THEN [a EXCEPT !.context = fresh, !.isEnabled = TRUE,
                             !.created = @ + 1]
              ELSE a
    IN IF a1.context = "suspended"
       THEN [a1 EXCEPT !.resumePending = TRUE]
       ELSE a1

\* a voice: an oscillator through its own gain node
\*   state          the context's state at the moment the voice is created
\*   t0             osc.start(t)
\*   decayEnd       the exponential ramp reaches 0.001 here
\*   stopAt         osc.stop(...)
\*   playing        the oscillator has not stopped
\*   gainConnected  gain.disconnect() has not run
Voice(a, frequency, t, stopAt) ==
    [freq |-> frequency, state |-> a.context, t0 |-> t,
     decayEnd |-> t + Duration, stopAt |-> stopAt,
     playing |-> TRUE, gainConnected |-> TRUE]

\* playTone with osc.stop(t + duration): the margin after the decay is lost
playTone_noMargin(a, vs, frequency) ==
    IF a.context = NULL THEN vs
    ELSE LET t == a.currentTime
         IN Append(vs, Voice(a, frequency, t, t + Duration))

\* playTone(frequency): one oscillator+gain voice
playTone(a, vs, frequency) ==
    IF a.context = NULL THEN vs
    ELSE LET t == a.currentTime
         IN Append(vs, Voice(a, frequency, t, t + Duration + StopMargin))

\* playRandomNote(): randomIndex is Math.floor(Math.random() * length)
playRandomNote(a, vs, randomIndex) ==
    IF a.context = NULL \/ ~a.isEnabled THEN vs
    ELSE playTone(a, vs, PENTATONIC_SCALE[randomIndex + 1])

NoteIndices == 0 .. (Len(PENTATONIC_SCALE) - 1)

(***************************************************************************)
(* RippleCanvas                                                            *)
(***************************************************************************)
\* new Ripple(x, y)
Ripple(x, y) == [x |-> x, y |-> y, age |-> 0, maxAge |-> MaxAge, active |-> TRUE]

\* || in place of ??: a coordinate of 0 counts as omitted
Nullish_falsy(v, d) == IF v = UNDEFINED \/ v = 0 THEN d ELSE v

\* the ?? operator
Nullish(v, d) == IF v = UNDEFINED THEN d ELSE v

\* addRipple(x?, y?): rx, ry are Math.random() * canvas.width / height
addRipple(rs, x, y, rx, ry) ==
    LET targetX == Nullish(x, rx)
        targetY == Nullish(y, ry)
    IN Append(rs, Ripple(targetX, targetY))

XCoords == 0 .. (CanvasWidth - 1)
\* the modelled viewport is one pixel row high
YCoords == {0}

\* update() with >= in place of >: the ripple expires one frame early
update_offByOne(r) ==
    LET r1 == [r EXCEPT !.age = @ + 1]
    IN IF r1.age >= r1.maxAge THEN [r1 EXCEPT !.active = FALSE] ELSE r1

\* Ripple.update()
update(r) ==
    LET r1 == [r EXCEPT !.age = @ + 1]
    IN IF r1.age > r1.maxAge THEN [r1 EXCEPT !.active = FALSE] ELSE r1

\* currentRadius of Ripple.draw, times maxAge (exact in integers):
\* 5 + (maxRadius - 5) * (age / maxAge)
RadiusScaled(r) == MinRadius * r.maxAge + (MaxRadius - MinRadius) * r.age

\* opacity of Ripple.draw, times 10 * maxAge: max(0, 0.8 * (1 - age / maxAge))
OpacityScaled(r) ==
    LET o == 8 * (r.maxAge - r.age) IN IF o < 0 THEN 0 ELSE o

\* Ripple.draw(ctx): what the call draws
draw(r) == [x |-> r.x, y |-> r.y, age |-> r.age, active |-> r.active,
            radius |-> RadiusScaled(r), opacity |-> OpacityScaled(r)]

\* Array.prototype.splice(i, 1), 1-based
splice(s, i) == [k \in 1 .. (Len(s) - 1) |-> IF k < i THEN s[k] ELSE s[k + 1]]

\* the body of the render loop at (1-based) index i
renderStep(st, i) ==
    LET ripple == update(st.ripples[i])
        rs1 == [st.ripples EXCEPT ![i] = ripple]
    IN [ripples |-> IF ~ripple.active THEN splice(rs1, i) ELSE rs1,
        drawLog |-> Append(st.drawLog, draw(ripple))]

\* the loop run forwards, for (let i = 0; i < length; i++): the entity after
\* a removed one is skipped
RECURSIVE forwardFrom(_, _)
forwardFrom(st, j) ==
    IF j > Len(st.ripples) THEN st ELSE forwardFrom(renderStep(st, j), j + 1)
renderLoop_forward(st, i) == forwardFrom(st, 1)

\* for (let i = length - 1; i >= 0; i--)
RECURSIVE renderLoop(_, _)
renderLoop(st, i) ==
    IF i < 1 THEN st ELSE renderLoop(renderStep(st, i), i - 1)

\* one pass of render()
render(rs) == renderLoop([ripples |-> rs, drawLog |-> <<>>], Len(rs))

\* elapsed counts saturate one past the pass that removes the ripple
ElapsedCap == MaxAge + 2
Tick(log) == [k \in 1 .. Len(log) |->
                 IF log[k] < ElapsedCap THEN log[k] + 1 ELSE log[k]]

(***************************************************************************)
(* The animation loop of RippleCanvas                                      *)
(*   frame.mounted  the component is mounted (canvasRef.current is set)    *)
(*   frame.pending  ids of the callbacks requestAnimationFrame holds       *)
(*   frame.ref      animationFrameRef.current                              *)
(*   frame.lastId   the id requestAnimationFrame returned last             *)
(* The platform's ids never repeat; the model hands them out from a ring   *)
(* in which an id returns only after the others.                           *)
(***************************************************************************)
FrameIds == {1, 2, 3}
nextFrameId(id) == IF id + 1 \in FrameIds THEN id + 1 ELSE 1

\* requestAnimationFrame(render)
requestAnimationFrame(f) ==
    LET id == nextFrameId(f.lastId)
    IN [f EXCEPT !.lastId = id, !.pending = @ \cup {id}]

\* cancelAnimationFrame(id)
cancelAnimationFrame(f, id) == [f EXCEPT !.pending = @ \ {id}]

\* the last line of render() without the assignment to animationFrameRef
scheduleNext_dropsId(f) == requestAnimationFrame(f)

\* animationFrameRef.current = requestAnimationFrame(render)
scheduleNext(f) ==
    LET f1 == requestAnimationFrame(f) IN [f1 EXCEPT !.ref = f1.lastId]

\* the effect at mount: its first render() finds no ripples and schedules
\* the next pass
mountField ==
    scheduleNext([mounted |-> TRUE, pending |-> {}, ref |-> 0, lastId |-> 0])

\* the effect's cleanup
unmountField(f) == [cancelAnimationFrame(f, f.ref) EXCEPT !.mounted = FALSE]

(***************************************************************************)
(* App: the trigger dispatcher                                             *)
(***************************************************************************)
\* triggerEffect without the getContextState() === 'running' test
triggerEffect_alwaysPlays(a, rs, vs, x, y, rx, ry, randomIndex) ==
    [ripples |-> addRipple(rs, x, y, rx, ry),
     voices |-> playRandomNote(a, vs, randomIndex)]

\* triggerEffect(x, y, source) on audio state a, ripples rs, voices vs
triggerEffect(a, rs, vs, x, y, rx, ry, randomIndex) ==
    [ripples |-> addRipple(rs, x, y, rx, ry),
     voices |-> IF getContextState(a) = "running"
                THEN playRandomNote(a, vs, randomIndex)
                ELSE vs]

\* triggerEffect after the App is unmounted: canvasRef.current is null, so
\* canvasRef.current?.addRipple is skipped
triggerEffectDetached(a, rs, vs, randomIndex) ==
    [ripples |-> rs,
     voices |-> IF getContextState(a) = "running"
                THEN playRandomNote(a, vs, randomIndex)
                ELSE vs]

\* startExperience()
startExperience(a, ready, fresh) ==
    LET a1 == init(a, fresh)
    IN [audio |-> a1,
        audioReady |-> IF getContextState(a1) = "running"
                          \/ getContextState(a1) = "suspended"
                       THEN TRUE ELSE ready]

\* startExperience() that catches the exception of init() and goes on to
\* setAudioReady(true): the overlay is dismissed although no context exists
startExperienceThrows_unlocks(a, ready) == [audio |-> a, audioReady |-> TRUE]

\* startExperience() when `new AudioContextClass()` throws inside init(): the
\* assignment to this.context and everything after init() is skipped
startExperienceThrows(a, ready) == [audio |-> a, audioReady |-> ready]

\* does this call of init() throw? only the constructor can
initThrows(a, fresh) == a.context = NULL /\ fresh = "throw"

\* if (!audioReady) startExperience(), as the click and key handlers do
startIfLocked(a, ready, fresh) ==
    IF ~ready THEN startExperience(a, ready, fresh)
    ELSE [audio |-> a, audioReady |-> ready]

\* the MIDI effect without its `if (!audioReady) return`
midiEffect_noReadyGuard(ready, supported, cur) ==
    IF supported THEN "pending" ELSE cur

\* the MIDI effect, run with the current audioReady; `supported` is whether
\* navigator.requestMIDIAccess exists
midiEffect(ready, supported, cur) ==
    IF ~ready THEN cur
    ELSE IF supported THEN "pending" ELSE cur

\* the WebSocket effect, run with the current audioReady
socketEffect(ready, ctorThrows, cur) ==
    IF ~ready THEN cur
    ELSE IF ctorThrows THEN NULL ELSE "connecting"

\* (status & 0xF0) for a byte
StatusNibble(status) == (status \div 16) * 16

\* the test of onMIDIMessage with status === 0x90: channel 1 only
isNoteOn_channelOne(status, velocity) ==
    status = NoteOn /\ velocity > 0

\* the test of onMIDIMessage
isNoteOn(status, velocity) ==
    StatusNibble(status) = NoteOn /\ velocity > 0

(***************************************************************************)
(* Bridge messages.  A text is its sequence of lexemes: punctuation,       *)
(* string literals (text = the characters between the quotes) and bare     *)
(* words; white space is dropped.                                          *)
(***************************************************************************)
Punct(c) == [kind |-> "punct", text |-> c]
Str(c) == [kind |-> "str", text |-> c]
Word(c) == [kind |-> "word", text |-> c]

\* what JSON.parse gives: a SyntaxError, or a value; an object carries its
\* members in source order
SyntaxError == [ok |-> FALSE, type |-> "", text |-> "", members |-> <<>>]
Parsed(type, text, members) ==
    [ok |-> TRUE, type |-> type, text |-> text, members |-> members]

\* the value that starts at lexeme i: a string, null or an empty array
parseValue(t, i) ==
    LET none == [ok |-> FALSE, type |-> "", text |-> "", next |-> i]
    IN IF i > Len(t) THEN none
       ELSE IF t[i].kind = "str"
            THEN [ok |-> TRUE, type |-> "string", text |-> t[i].text, next |-> i + 1]
       ELSE IF t[i] = Word("null")
            THEN [ok |-> TRUE, type |-> "null", text |-> "", next |-> i + 1]
       ELSE IF t[i] = Punct("[") /\ i + 1 <= Len(t) /\ t[i + 1] = Punct("]")
            THEN [ok |-> TRUE, type |-> "array", text |-> "", next |-> i + 2]
       ELSE none

\* the members of an object from lexeme i on:  "key" : value  ( , ... )* }
RECURSIVE parseMembers(_, _, _)
parseMembers(t, i, members) ==
    IF i + 2 <= Len(t) /\ t[i].kind = "str" /\ t[i + 1] = Punct(":")
    THEN LET v == parseValue(t, i + 2)
             ms == Append(members,
                          [key |-> t[i].text, type |-> v.type, text |-> v.text])
         IN IF ~v.ok \/ v.next > Len(t) THEN SyntaxError
            ELSE IF t[v.next] = Punct("}")
                 THEN IF v.next = Len(t) THEN Parsed("object", "", ms)
                      ELSE SyntaxError
            ELSE IF t[v.next] = Punct(",") THEN parseMembers(t, v.next + 1, ms)
            ELSE SyntaxError
    ELSE SyntaxError

\* JSON.parse(text), for flat objects, strings, null and empty arrays
JSONparse(t) ==
    IF Len(t) = 0 THEN SyntaxError
    ELSE IF t[1] = Punct("{")
         THEN IF Len(t) = 2 /\ t[2] = Punct("}") THEN Parsed("object", "", <<>>)
              ELSE parseMembers(t, 2, <<>>)
    ELSE LET v == parseValue(t, 1)
         IN IF v.ok /\ v.next = Len(t) + 1 THEN Parsed(v.type, v.text, <<>>)
            ELSE SyntaxError

\* data.address of a parsed value other than null: the last member of that
\* name, or undefined
addressOf(data) ==
    LET at == {k \in 1 .. Len(data.members) : data.members[k].key = "address"}
    IN IF at = {} THEN [type |-> "undefined", text |-> ""]
       ELSE LET k == CHOOSE k \in at : \A j \in at : j <= k
            IN [type |-> data.members[k].type, text |-> data.members[k].text]

\* the lexemes that contain 'vibration' as a substring
VibrationLexemes == {"vibration", "vibrations", OscAddress}

\* event.data.includes('vibration')
includesVibration(t) == \E k \in 1 .. Len(t) : t[k].text \in VibrationLexemes

\* data.address === SIGNAL_CONFIG.oscAddress
isTargetAddress(data) == addressOf(data) = [type |-> "string", text |-> OscAddress]

\* socket.onmessage with the string match after the try/catch instead of
\* inside the catch
onmessageTriggers_matchAlways(msg) ==
    LET data == JSONparse(msg.text)
    IN \/ data.ok /\ data.type # "null" /\ isTargetAddress(data)
       \/ msg.isString /\ includesVibration(msg.text)

\* socket.onmessage: does this message trigger?
\*   msg.isString  typeof event.data === 'string'
\*   msg.text      String(event.data), as lexemes
\* reading .address of null throws, and lands in the catch like a SyntaxError
onmessageTriggers(msg) ==
    LET data == JSONparse(msg.text)
    IN IF data.ok /\ data.type # "null"
       THEN isTargetAddress(data)
       ELSE msg.isString /\ includesVibration(msg.text)

(***************************************************************************)
(* Inputs                                                                  *)
(***************************************************************************)
\* what `new AudioContextClass()` does: a context in one of its two live
\* states, or an exception
FreshOutcomes == ContextStates \cup {"throw"}

KeyCodes == {"Space", "Enter", "KeyA"}

\* [status, note, velocity]: note off, note on (channels 1 and 16),
\* control change; velocity 0 and nonzero
MidiStatuses == {128, 144, 159, 176}
MidiVelocities == {0, 100}
MidiNotes == {60}

TextFrame(t) == [isString |-> TRUE, text |-> t]
BinaryFrame(t) == [isString |-> FALSE, text |-> t]

BridgeMessages == {
    \* {"address":"/sensor/vibration","args":[]}
    TextFrame(<<Punct("{"), Str("address"), Punct(":"), Str(OscAddress), Punct(","),
                Str("args"), Punct(":"), Punct("["), Punct("]"), Punct("}")>>),
    \* {"address":"/other"}
    TextFrame(<<Punct("{"), Str("address"), Punct(":"), Str("/other"), Punct("}")>>),
    \* {"address":"/other","note":"vibration"}
    TextFrame(<<Punct("{"), Str("address"), Punct(":"), Str("/other"), Punct(","),
                Str("note"), Punct(":"), Str("vibration"), Punct("}")>>),
    \* {"address":"/sensor/vibration"     (cut short)
    TextFrame(<<Punct("{"), Str("address"), Punct(":"), Str(OscAddress)>>),
    \* "vibration"     (a JSON string)
    TextFrame(<<Str("vibration")>>),
    \* random vibration alert
    TextFrame(<<Word("random"), Word("vibration"), Word("alert")>>),
    \* hello
    TextFrame(<<Word("hello")>>),
    \* null
    TextFrame(<<Word("null")>>),
    \* a binary frame: String(blob) is [object Blob]
    BinaryFrame(<<Punct("["), Word("object"), Word("Blob"), Punct("]")>>) }

\* the event a step handled: which handler or platform callback ran (op),
\* the coordinates it passed on (x, y), whether it called init() and whether
\* an exception left it (threw), and the key code, MIDI bytes or bridge
\* message it was given
Event(op, x, y, initCalled, threw) ==
    [op |-> op, x |-> x, y |-> y, init |-> initCalled, threw |-> threw,
     key |-> "", midi |-> <<>>, osc |-> <<>>]
Plain(op) == Event(op, UNDEFINED, UNDEFINED, FALSE, FALSE)

(***************************************************************************)
(* Initial state: the App is mounted, its effects have run with            *)
(* audioReady = false, nothing has been clicked                            *)
(***************************************************************************)
Init ==
    /\ audioService = [context |-> NULL, isEnabled |-> FALSE,
                       resumePending |-> FALSE, created |-> 0,
                       currentTime |-> 0]
    /\ voices = <<>>
    /\ audioReady = FALSE
    /\ midiAccess = midiEffect(FALSE, TRUE, "none")
    /\ socket = socketEffect(FALSE, FALSE, NULL)
    /\ mounted = TRUE
    /\ ripples = <<>>
    /\ elapsed = <<>>
    /\ drawLog = <<>>
    /\ frame = mountField
    /\ last = Plain("mount")

\* room left for one more ripple and one more voice
Room == Len(elapsed) < MaxSpawns /\ Len(voices) < MaxVoices

\* the spawn log follows the ripples pushed by a handler
Spawned(rs) == IF Len(rs) > Len(ripples) THEN Append(elapsed, 0) ELSE elapsed

(***************************************************************************)
(* Actions of the App                                                      *)
(***************************************************************************)
\* The draws a handler does not use are not enumerated: one value stands
\* for all of them.
Pick(S) == {CHOOSE v \in S : TRUE}
\* what the AudioContext constructor does, where init() would call it
FreshFor(a, calls) == IF calls /\ a.context = NULL THEN FreshOutcomes ELSE Pick(ContextStates)
\* the environment of the effects, where they re-run
BoolFor(used) == IF used THEN BOOLEAN ELSE {FALSE}
\* the Math.random() draw of playRandomNote, where it is made
NoteFor(a) == IF getContextState(a) = "running" THEN NoteIndices ELSE Pick(NoteIndices)

\* the effects with audioReady in their dependencies re-run when it changes
effects(ready, supported, ctorThrows) ==
    IF ready # audioReady
    THEN [midiAccess |-> midiEffect(ready, supported, midiAccess),
          socket |-> socketEffect(ready, ctorThrows, socket)]
    ELSE [midiAccess |-> midiAccess, socket |-> socket]

\* a gesture handler: if (!audioReady) startExperience(); triggerEffect(x, y)
Gesture(op, code, x, y) ==
    \E fresh \in FreshFor(audioService, ~audioReady) :
        LET calls == ~audioReady
            threw == calls /\ initThrows(audioService, fresh)
            st == startIfLocked(audioService, audioReady, fresh)
            ex == startExperienceThrows(audioService, audioReady)
        IN /\ mounted
           /\ Room
           /\ last' = [Event(op, x, y, calls, threw) EXCEPT !.key = code]
           /\ IF threw
              THEN /\ audioService' = ex.audio
                   /\ audioReady' = ex.audioReady
                   /\ UNCHANGED <<voices, midiAccess, socket, mounted, fieldVars>>
              ELSE \E supported \in BoolFor(st.audioReady # audioReady),
                      ctorThrows \in BoolFor(st.audioReady # audioReady),
                      rx \in XCoords, ry \in YCoords,
                      randomIndex \in NoteFor(st.audio) :
                      LET fx == triggerEffect(st.audio, ripples, voices, x, y,
                                              rx, ry, randomIndex)
                          ef == effects(st.audioReady, supported, ctorThrows)
                      IN /\ audioService' = st.audio
                         /\ audioReady' = st.audioReady
                         /\ ripples' = fx.ripples
                         /\ elapsed' = Spawned(fx.ripples)
                         /\ voices' = fx.voices
                         /\ midiAccess' = ef.midiAccess
                         /\ socket' = ef.socket
                         /\ UNCHANGED <<mounted, drawLog, frame>>

\* an event that reaches no handler, or that its handler drops
Ignored(ev) ==
    /\ last' = ev
    /\ UNCHANGED <<audioVars, appVars, fieldVars>>

\* handleCanvasClick(e): e.clientX, e.clientY
handleCanvasClick ==
    \E x \in XCoords, y \in YCoords : Gesture("click", "", x, y)

\* handleKeyDown(e): e.code
handleKeyDown ==
    \E code \in KeyCodes :
        IF code = "Space" \/ code = "Enter"
        THEN Gesture("key", code, UNDEFINED, UNDEFINED)
        ELSE mounted /\ Ignored([Plain("key") EXCEPT !.key = code])

\* the Start Experience button (rendered while locked): startExperience only
startButton ==
    \E fresh \in FreshFor(audioService, TRUE) :
        LET threw == initThrows(audioService, fresh)
            st == startExperience(audioService, audioReady, fresh)
            ex == startExperienceThrows(audioService, audioReady)
        IN /\ mounted
           /\ ~audioReady
           /\ last' = Event("button", UNDEFINED, UNDEFINED, TRUE, threw)
           /\ IF threw
              THEN /\ audioService' = ex.audio
                   /\ audioReady' = ex.audioReady
                   /\ UNCHANGED <<voices, midiAccess, socket, mounted, fieldVars>>
              ELSE \E supported \in BoolFor(st.audioReady # audioReady),
                      ctorThrows \in BoolFor(st.audioReady # audioReady) :
                      LET ef == effects(st.audioReady, supported, ctorThrows)
                      IN /\ audioService' = st.audio
                         /\ audioReady' = st.audioReady
                         /\ midiAccess' = ef.midiAccess
                         /\ socket' = ef.socket
                         /\ UNCHANGED <<voices, mounted, fieldVars>>

\* a trigger from a source that is no user gesture
Trigger(ev) ==
    \E rx \in XCoords, ry \in YCoords, randomIndex \in NoteFor(audioService) :
        LET fx == triggerEffect(audioService, ripples, voices, UNDEFINED, UNDEFINED,
                                rx, ry, randomIndex)
        IN /\ ripples' = fx.ripples
           /\ elapsed' = Spawned(fx.ripples)
           /\ voices' = fx.voices
           /\ last' = ev
           /\ UNCHANGED <<audioService, appVars, drawLog, frame>>

\* a MIDI message arrives at an input; onMIDIMessage runs if it was registered
midiMessage ==
    \E status \in MidiStatuses, note \in MidiNotes, velocity \in MidiVelocities :
        LET ev == [Plain("midi") EXCEPT !.midi = <<status, note, velocity>>]
        IN /\ mounted
           /\ Room
           /\ IF midiAccess = "granted" /\ isNoteOn(status, velocity)
              THEN Trigger(ev)
              ELSE Ignored(ev)

\* a message arrives from the bridge; socket.onmessage runs if the socket is open
socketMessage ==
    \E msg \in BridgeMessages :
        LET ev == [Plain("osc") EXCEPT !.osc = <<msg>>]
        IN /\ mounted
           /\ Room
           /\ IF socket = "open" /\ onmessageTriggers(msg)
              THEN Trigger(ev)
              ELSE Ignored(ev)

(***************************************************************************)
(* Actions of the platform                                                 *)
(***************************************************************************)
Platform(op) == last' = Plain(op)

\* the platform settles context.resume(): the context runs, or the request fails
resumeSettles ==
    /\ audioService.context # NULL
    /\ audioService.resumePending
    /\ \E ok \in BOOLEAN :
        /\ audioService' = [audioService EXCEPT
                               !.resumePending = FALSE,
                               !.context = IF ok THEN "running" ELSE @]
        /\ Platform(IF ok THEN "resumed" ELSE "resumeFailed")
    /\ UNCHANGED <<voices, appVars, fieldVars>>

\* the platform suspends a running context (interruption, power saving)
platformSuspends ==
    /\ audioService.context = "running"
    /\ audioService' = [audioService EXCEPT !.context = "suspended"]
    /\ Platform("suspended")
    /\ UNCHANGED <<voices, appVars, fieldVars>>

\* requestMIDIAccess() settles
midiAccessSettles ==
    /\ midiAccess = "pending"
    /\ \E granted \in BOOLEAN :
        /\ midiAccess' = IF granted THEN "granted" ELSE "denied"
        /\ Platform(IF granted THEN "midiGranted" ELSE "midiDenied")
    /\ UNCHANGED <<audioVars, audioReady, socket, mounted, fieldVars>>

\* the bridge connection opens
socketOpens ==
    /\ socket = "connecting"
    /\ socket' = "open"
    /\ Platform("socketOpen")
    /\ UNCHANGED <<audioVars, audioReady, midiAccess, mounted, fieldVars>>

\* the bridge connection fails or drops
socketCloses ==
    /\ socket \in {"connecting", "open"}
    /\ socket' = "closed"
    /\ Platform("socketClosed")
    /\ UNCHANGED <<audioVars, audioReady, midiAccess, mounted, fieldVars>>

Next ==
    \/ handleCanvasClick
    \/ handleKeyDown
    \/ startButton
    \/ midiMessage
    \/ socketMessage
    \/ resumeSettles
    \/ platformSuspends
    \/ midiAccessSettles
    \/ socketOpens
    \/ socketCloses

Spec == Init /\ [][Next]_vars

(***************************************************************************)
(* The audioService singleton driven directly through its public methods   *)
(***************************************************************************)
\* audioService.init()
callInit ==
    \E fresh \in FreshOutcomes :
        LET threw == initThrows(audioService, fresh)
        IN /\ audioService' = IF threw THEN audioService
                              ELSE init(audioService, fresh)
           /\ last' = Event("init", UNDEFINED, UNDEFINED, TRUE, threw)
           /\ UNCHANGED <<voices, appVars, fieldVars>>

\* audioService.playRandomNote()
callPlayRandomNote ==
    \E randomIndex \in NoteIndices :
        /\ Len(voices) < MaxVoices
        /\ voices' = playRandomNote(audioService, voices, randomIndex)
        /\ last' = Plain("playRandomNote")
        /\ UNCHANGED <<audioService, appVars, fieldVars>>

NextAudio ==
    \/ callInit
    \/ callPlayRandomNote
    \/ resumeSettles
    \/ platformSuspends

SpecAudio == Init /\ [][NextAudio]_vars

(***************************************************************************)
(* The RippleCanvas component: its addRipple handle and its render pass    *)
(***************************************************************************)
OptXCoords == XCoords \cup {UNDEFINED}
OptYCoords == YCoords \cup {UNDEFINED}

\* canvasRef.current.addRipple(x?, y?)
callAddRipple ==
    \E x \in OptXCoords, y \in OptYCoords :
      \E rx \in XCoords, ry \in YCoords :
        /\ Len(elapsed) < MaxSpawns
        /\ ripples' = addRipple(ripples, x, y, rx, ry)
        /\ elapsed' = Append(elapsed, 0)
        /\ last' = Event("addRipple", x, y, FALSE, FALSE)
        /\ UNCHANGED <<audioVars, appVars, drawLog, frame>>

\* one animation frame: render()
renderPass ==
    LET st == render(ripples)
    IN /\ ripples' = st.ripples
       /\ drawLog' = st.drawLog
       /\ elapsed' = Tick(elapsed)
       /\ last' = Plain("render")
       /\ UNCHANGED <<audioVars, appVars, frame>>

NextField ==
    \/ callAddRipple
    \/ renderPass

SpecField == Init /\ [][NextField]_vars

(***************************************************************************)
(* The App with its teardown                                               *)
(***************************************************************************)
\* React unmounts the App: the cleanups of the keyboard effect and of the
\* WebSocket effect run (the MIDI effect returns none), the RippleCanvas
\* child is unmounted with it and canvasRef.current becomes null
unmountApp ==
    /\ mounted
    /\ mounted' = FALSE
    /\ socket' = IF socket \in {"connecting", "open"} THEN "closed" ELSE socket
    /\ frame' = unmountField(frame)
    /\ Platform("unmount")
    /\ UNCHANGED <<audioVars, audioReady, midiAccess, ripples, elapsed, drawLog>>

\* a key goes down after the unmount: the listener was removed
keyAfterUnmount ==
    \E code \in KeyCodes :
        /\ ~mounted
        /\ Ignored([Plain("key") EXCEPT !.key = code])

\* a MIDI message arrives after the unmount: input.onmidimessage is still
\* the handler the effect registered
midiAfterUnmount ==
    \E status \in MidiStatuses, note \in MidiNotes, velocity \in MidiVelocities :
        LET ev == [Plain("midi") EXCEPT !.midi = <<status, note, velocity>>]
        IN /\ ~mounted
           /\ Len(voices) < MaxVoices
           /\ IF midiAccess = "granted" /\ isNoteOn(status, velocity)
              THEN \E randomIndex \in NoteFor(audioService) :
                      LET fx == triggerEffectDetached(audioService, ripples, voices,
                                                      randomIndex)
                      IN /\ ripples' = fx.ripples
                         /\ voices' = fx.voices
                         /\ last' = ev
                         /\ UNCHANGED <<audioService, appVars, elapsed, drawLog, frame>>
              ELSE Ignored(ev)

\* the bridge sends after the unmount: the socket was closed
socketAfterUnmount ==
    \E msg \in BridgeMessages :
        /\ ~mounted
        /\ Ignored([Plain("osc") EXCEPT !.osc = <<msg>>])

NextTeardown ==
    \/ Next
    \/ unmountApp
    \/ keyAfterUnmount
    \/ midiAfterUnmount
    \/ socketAfterUnmount

SpecTeardown == Init /\ [][NextTeardown]_vars

(***************************************************************************)
(* The RippleCanvas component with its animation loop and its teardown     *)
(***************************************************************************)
\* the addRipple handle; after the unmount `if (!canvasRef.current) return`
loopAddRipple ==
    \E x \in OptXCoords, y \in OptYCoords :
      \E rx \in XCoords, ry \in YCoords :
        /\ Len(elapsed) < MaxLoopSpawns
        /\ last' = Event("addRipple", x, y, FALSE, FALSE)
        /\ IF frame.mounted
           THEN /\ ripples' = addRipple(ripples, x, y, rx, ry)
                /\ elapsed' = Append(elapsed, 0)
           ELSE UNCHANGED <<ripples, elapsed>>
        /\ UNCHANGED <<audioVars, appVars, drawLog, frame>>

\* the platform runs a scheduled callback: render(), which schedules the next
framePass ==
    \E id \in frame.pending :
        LET st == render(ripples)
        IN /\ ripples' = st.ripples
           /\ drawLog' = st.drawLog
           /\ elapsed' = Tick(elapsed)
           /\ frame' = scheduleNext(cancelAnimationFrame(frame, id))
           /\ last' = Plain("frame")
           /\ UNCHANGED <<audioVars, appVars>>

\* React unmounts the RippleCanvas
unmountCanvas ==
    /\ frame.mounted
    /\ frame' = unmountField(frame)
    /\ Platform("unmountCanvas")
    /\ UNCHANGED <<audioVars, appVars, ripples, elapsed, drawLog>>

NextLoop ==
    \/ loopAddRipple
    \/ framePass
    \/ unmountCanvas

SpecLoop == Init /\ [][NextLoop]_vars

(***************************************************************************)
(* The audioService singleton with the audio clock                         *)
(***************************************************************************)
\* the oscillators that osc.stop(stopAt) has stopped by time t
stopDue(vs, t) ==
    [k \in 1 .. Len(vs) |-> [vs[k] EXCEPT !.playing = @ /\ t < vs[k].stopAt]]

\* context.currentTime advances while the context runs
audioTick ==
    /\ audioService.context = "running"
    /\ audioService.currentTime < MaxTime
    /\ audioService' = [audioService EXCEPT !.currentTime = @ + 1]
    /\ voices' = stopDue(voices, audioService.currentTime + 1)
    /\ Platform("tick")
    /\ UNCHANGED <<appVars, fieldVars>>

\* osc.onended of a stopped oscillator: gain.disconnect()
oscEnded ==
    \E k \in 1 .. Len(voices) :
        /\ ~voices[k].playing
        /\ voices[k].gainConnected
        /\ voices' = [voices EXCEPT ![k].gainConnected = FALSE]
        /\ Platform("ended")
        /\ UNCHANGED <<audioService, appVars, fieldVars>>

\* audioService.playRandomNote() at some moment of the clock; the note drawn
\* has no part in the timing, so one note stands for all
playAtClock ==
    \E randomIndex \in Pick(NoteIndices) :
        /\ Len(voices) < MaxVoices
        /\ voices' = playRandomNote(audioService, voices, randomIndex)
        /\ last' = Plain("playRandomNote")
        /\ UNCHANGED <<audioService, appVars, fieldVars>>

NextVoice ==
    \/ callInit
    \/ playAtClock
    \/ resumeSettles
    \/ platformSuspends
    \/ audioTick
    \/ oscEnded

SpecVoice == Init /\ [][NextVoice]_vars

(***************************************************************************)
(* Properties                                                              *)
(***************************************************************************)
state == getContextState(audioService)
Gestures == {"click", "key"}

\* C1 (SpecAudio): playRandomNote() called while the engine state is not
\* Running creates no voice and changes no state.
C1_PlayWhileNotRunningIsNoOp ==
    [][(last'.op = "playRandomNote" /\ state # "running")
         => UNCHANGED <<audioService, voices, appVars, fieldVars>>]_vars

\* C2 (Spec): through the dispatcher's handlers, every voice is created at
\* a moment when the engine state is Running.
C2_VoicesOnlyWhileRunning ==
    \A i \in 1 .. Len(voices) : voices[i].state = "running"

\* a trigger was dropped with the engine suspended, another made a voice,
\* and the platform has suspended the context again
C2_Witness ==
    /\ Len(voices) >= 1
    /\ Len(ripples) > Len(voices)
    /\ state = "suspended"

\* the latest event is one the dispatcher normalizes to a trigger: a click,
\* a Space/Enter key-down, a delivered note-on, a delivered matching message
DeliveredTrigger(ev, midi, sock) ==
    \/ ev.op = "click"
    \/ ev.op = "key" /\ ev.key \in {"Space", "Enter"}
    \/ ev.op = "midi" /\ midi = "granted" /\ isNoteOn(ev.midi[1], ev.midi[3])
    \/ ev.op = "osc" /\ sock = "open" /\ onmessageTriggers(ev.osc[1])

\* C3 (Spec): once Unlocked, every normalized input event appends exactly
\* one ripple (at the click coordinates for a click, inside the canvas
\* otherwise) and makes exactly one voice if the engine is Running at that
\* moment, none otherwise.
C3_OneRippleAtMostOneNote ==
    [][(audioReady /\ DeliveredTrigger(last', midiAccess, socket))
         => /\ Len(ripples') = Len(ripples) + 1
            /\ SubSeq(ripples', 1, Len(ripples)) = ripples
            /\ LET r == ripples'[Len(ripples')]
               IN /\ r.age = 0 /\ r.active
                  /\ IF last'.op = "click"
                     THEN r.x = last'.x /\ r.y = last'.y
                     ELSE r.x \in XCoords /\ r.y \in YCoords
            /\ IF state = "running"
               THEN /\ Len(voices') = Len(voices) + 1
                    /\ SubSeq(voices', 1, Len(voices)) = voices
               ELSE voices' = voices]_vars

\* unlocked, a click at x = 0 made a ripple and no voice (engine suspended)
\* after a bridged message had made a ripple and a voice
C3_Witness ==
    /\ audioReady
    /\ last.op = "click" /\ last.x = 0
    /\ Len(ripples) = 2 /\ ripples[2].x = 0
    /\ Len(voices) = 1
    /\ state = "suspended"

\* C4 (Spec): while Locked, MIDI and bridged messages make no ripple and no
\* voice and do not unlock; Locked -> Unlocked happens only in a step that
\* handles a pointer click or a Space/Enter key-down.
C4_LockedIgnoresMidiAndBridge ==
    [][/\ (~audioReady /\ last'.op \in {"midi", "osc"})
            => UNCHANGED <<ripples, voices, audioReady, audioService>>
       /\ (~audioReady /\ audioReady')
            => \/ last'.op \in {"click", "button"}
               \/ last'.op = "key" /\ last'.key \in {"Space", "Enter"}]_vars

\* a note-on with nonzero velocity arrived while Locked
C4_Witness ==
    /\ ~audioReady
    /\ last.op = "midi"
    /\ isNoteOn(last.midi[1], last.midi[3])

\* C5 (Spec): whenever the engine is Suspended and a click or Space/Enter
\* key-down arrives, the handler calls init() (and so requests a resume).
C5_GestureWhileSuspendedCallsInit ==
    [][(state = "suspended" /\ last'.op \in Gestures
          /\ (last'.op = "key" => last'.key \in {"Space", "Enter"}))
         => last'.init /\ audioService'.resumePending]_vars

\* C6 (SpecAudio): the engine state changes only Uninitialized -> Running or
\* Suspended in a step that calls init(), or Suspended -> Running when the
\* platform settles a resume that init() requested; the only other change
\* is the platform's own suspension of a running context, which is no
\* operation of the program.
C6_StateTransitions ==
    [][state # getContextState(audioService')
         => \/ /\ state = "uninitialized"
               /\ getContextState(audioService') \in ContextStates
               /\ last'.init
            \/ /\ state = "suspended"
               /\ getContextState(audioService') = "running"
               /\ audioService.resumePending
               /\ last'.op = "resumed"
            \/ /\ state = "running"
               /\ getContextState(audioService') = "suspended"
               /\ last'.op = "suspended"]_vars

\* a context that had run (it made a voice) was suspended by the platform,
\* init() requested its resume and the platform resumed it
C6_Witness ==
    /\ last.op = "resumed"
    /\ state = "running"
    /\ Len(voices) >= 1 /\ voices[1].state = "running"

\* C7 (SpecAudio): over any sequence of init() calls at most one audio
\* context is built, and once built it is never replaced or destroyed.
C7_OneContext ==
    audioService.created = IF audioService.context = NULL THEN 0 ELSE 1

\* init() ran again on a context that had already played a voice
C7_Witness ==
    /\ last.op = "init" /\ ~last.threw
    /\ audioService.created = 1
    /\ Len(voices) >= 1

\* spawns whose count of render passes since the spawn is at most maxAge
LiveSpawns == {k \in 1 .. Len(elapsed) : elapsed[k] <= MaxAge}

\* C8 (SpecField): after a render pass the collection holds as many
\* entities as there are spawns with at most maxAge render passes since the
\* spawn; a spawn older than that is gone and stays gone.
C8_CountAfterRender ==
    last.op = "render" => Len(ripples) = Cardinality(LiveSpawns)

\* after a pass, one spawn expired passes ago and another is in its last frame
C8_Witness ==
    /\ last.op = "render"
    /\ Len(elapsed) = 2
    /\ elapsed[1] = ElapsedCap
    /\ elapsed[2] = MaxAge
    /\ Len(ripples) = 1

\* C9 (SpecField): no draw call happens on an entity whose active flag is
\* false.
C9_InactiveNeverDrawn ==
    \A i \in 1 .. Len(drawLog) : drawLog[i].active

\* the radius Ripple.draw computes at a given age, times maxAge
RadiusAtAge(age) == RadiusScaled([Ripple(0, 0) EXCEPT !.age = age])

\* C10 (SpecField): every radius a ripple is drawn with lies in [5, 80], is
\* no smaller than the one of its previous frame, and is larger while
\* age <= maxAge.
C10_DrawnRadiusBounded ==
    \A i \in 1 .. Len(drawLog) :
        LET d == drawLog[i]
        IN /\ MinRadius * MaxAge <= d.radius
           /\ d.radius <= MaxRadius * MaxAge
           /\ d.radius >= RadiusAtAge(d.age - 1)
           /\ d.age <= MaxAge => d.radius > RadiusAtAge(d.age - 1)

\* C11 (Spec): a pointer click at (x, y) while Locked unlocks the
\* dispatcher, appends exactly one ripple at exactly (x, y), and makes at
\* most one voice: exactly one if the engine state is Running after it.
C11_LockedClickUnlocksAndTriggers ==
    [][(~audioReady /\ last'.op = "click")
         => /\ audioReady'
            /\ Len(ripples') = Len(ripples) + 1
            /\ ripples'[Len(ripples')].x = last'.x
            /\ ripples'[Len(ripples')].y = last'.y
            /\ Len(voices') <= Len(voices) + 1
            /\ getContextState(audioService') = "running"
                 => Len(voices') = Len(voices) + 1]_vars

\* the test of the claim, on the bytes of the message: the high nibble of
\* status is 0x9 and velocity is nonzero
HighNibbleNine(m) == m[1] \div 16 = 9 /\ m[3] # 0

\* C12 (Spec): a MIDI message received by the registered handler makes
\* exactly one trigger (one ripple) if and only if the high nibble of its
\* status is 0x9 and its velocity is nonzero, whatever the channel; every
\* other message makes none.
C12_NoteOnAnyChannelTriggersOnce ==
    [][(last'.op = "midi" /\ midiAccess = "granted")
         => Len(ripples') - Len(ripples)
              = IF HighNibbleNine(last'.midi) THEN 1 ELSE 0]_vars

\* a note-on of channel 16 reached the handler and made the only ripple
C12_Witness ==
    /\ last.op = "midi"
    /\ last.midi = <<159, 60, 100>>
    /\ midiAccess = "granted"
    /\ Len(ripples) = 1

\* C13 (Spec): a text message delivered by the bridge makes exactly one
\* trigger when it parses as a record whose address is '/sensor/vibration',
\* or when it does not parse and its text contains 'vibration'; one that
\* parses with any other address (or none) makes no trigger even if its
\* text contains 'vibration'; no message makes more than one.
C13_BridgeMessageTriggers ==
    [][(last'.op = "osc" /\ socket = "open" /\ last'.osc[1].isString)
         => LET text == last'.osc[1].text
                data == JSONparse(text)
                n == Len(ripples') - Len(ripples)
            IN /\ (data.ok /\ data.type = "object" /\ isTargetAddress(data))
                    => n = 1
               /\ (~data.ok /\ includesVibration(text)) => n = 1
               /\ (data.ok /\ ~isTargetAddress(data)) => n = 0
               /\ n <= 1]_vars

\* the unparsable text `random vibration alert` made the only ripple
C13_Witness ==
    /\ last.op = "osc"
    /\ last.osc[1] = TextFrame(<<Word("random"), Word("vibration"), Word("alert")>>)
    /\ socket = "open"
    /\ Len(ripples) = 1

\* C14 (SpecTeardown): after the App is unmounted no keyboard, MIDI or
\* bridge event makes a ripple or a voice.
C14_NoEffectAfterTeardown ==
    [][(~mounted /\ last'.op \in {"key", "midi", "osc"})
         => UNCHANGED <<ripples, voices>>]_vars

\* C15 (Spec): no exception leaves the click handler or the key handler.
C15_NoThrowEscapesHandler ==
    last.op \in Gestures => ~last.threw

\* a pointer click or a Space/Enter key-down
QualifyingGesture(ev) ==
    ev.op = "click" \/ (ev.op = "key" /\ ev.key \in {"Space", "Enter"})

\* C16 (Spec): a handler step in which acquiring the audio output fails
\* leaves the engine Uninitialized and the dispatcher Locked, and a click or
\* Space/Enter key-down taken in that state calls init() again.
C16_FailureKeepsLockedAndRetries ==
    [][/\ last'.threw
          => /\ getContextState(audioService') = "uninitialized"
             /\ ~audioReady'
       /\ (last.threw /\ QualifyingGesture(last')) => last'.init]_vars

\* a click called init() and the constructor threw: the engine is
\* Uninitialized and the dispatcher Locked
C16_Witness ==
    /\ last.op = "click"
    /\ last.init
    /\ last.threw
    /\ state = "uninitialized"
    /\ ~audioReady

\* C17 (SpecLoop): while the RippleCanvas is mounted every render pass
\* leaves exactly one scheduled pass, a new one; the teardown cancels the
\* pending pass, and no render pass runs after it.
C17_LoopReschedulesAndStops ==
    [][/\ (last'.op = "frame" /\ frame.mounted)
          => /\ frame'.pending = {frame'.lastId}
             /\ frame'.lastId \notin frame.pending
       /\ last'.op = "unmountCanvas"
          => /\ Cardinality(frame.pending) = 1
             /\ frame'.pending = {}
       /\ ~frame.mounted => last'.op # "frame"]_vars

\* torn down after two passes that drew a ripple: nothing is scheduled
C17_Witness ==
    /\ ~frame.mounted
    /\ frame.pending = {}
    /\ frame.lastId = 3
    /\ Len(ripples) = 1
    /\ ripples[1].age = 2

\* the entities that outlive a pass: age + 1 does not exceed maxAge
Survives(r) == r.age + 1 <= r.maxAge

\* how many entries of a sequence of ripples or draw calls have this
\* position and this age
CountAt(seq, x, y, age) ==
    Cardinality({k \in 1 .. Len(seq) :
                    seq[k].x = x /\ seq[k].y = y /\ seq[k].age = age})

\* C18 (SpecField): one render pass advances the age of every entity it
\* starts with by exactly 1 (each is updated and drawn once, in whatever
\* order, the removed ones too), and the entities that stay keep their order.
C18_EachAgedOnceInOrder ==
    [][last'.op = "render"
         => LET n == Len(ripples)
                kept == SelectSeq(ripples, Survives)
            IN /\ Len(drawLog') = n
               /\ \A k \in 1 .. n :
                    LET r == ripples[k]
                    IN CountAt(drawLog', r.x, r.y, r.age + 1)
                         = CountAt(ripples, r.x, r.y, r.age)
               /\ Len(ripples') = Len(kept)
               /\ \A k \in 1 .. Len(kept) :
                    /\ ripples'[k].age = kept[k].age + 1
                    /\ ripples'[k].x = kept[k].x
                    /\ ripples'[k].y = kept[k].y]_vars

\* a pass removed the first entity and kept the one behind it
C18_Witness ==
    /\ last.op = "render"
    /\ Len(drawLog) = 2
    /\ ~drawLog[2].active
    /\ drawLog[1].active
    /\ Len(ripples) = 1
    /\ ripples[1].age = drawLog[1].age

\* C19 (SpecVoice): every playTone at audio time t0 appends exactly one
\* voice and touches no other; the voice's decay ends at t0 + 1.5 s and its
\* oscillator is stopped at t0 + 1.6 s, so no voice sounds at or after that
\* time; its gain node is disconnected only once it has stopped, by its own
\* onended.  Times are in tenths of a second.
C19_VoiceWindow ==
    /\ [](\A k \in 1 .. Len(voices) :
            LET v == voices[k]
            IN /\ v.decayEnd = v.t0 + 15
               /\ v.stopAt = v.t0 + 16
               /\ v.playing => audioService.currentTime < v.stopAt
               /\ ~v.gainConnected => ~v.playing)
    /\ [][/\ (last'.op = "playRandomNote" /\ state # "uninitialized")
             => /\ Len(voices') = Len(voices) + 1
                /\ SubSeq(voices', 1, Len(voices)) = voices
                /\ voices'[Len(voices')].t0 = audioService.currentTime
                /\ voices'[Len(voices')].playing
                /\ voices'[Len(voices')].gainConnected
          /\ last'.op = "ended"
             => /\ Len(voices') = Len(voices)
                /\ Cardinality({k \in 1 .. Len(voices) : voices'[k] # voices[k]}) = 1
                /\ \A k \in 1 .. Len(voices) :
                     voices'[k] # voices[k]
                       => voices'[k] = [voices[k] EXCEPT !.gainConnected = FALSE]]_vars

\* two voices overlapped; the first has stopped at t0 + 1.6 s and released
\* its gain node while the second still sounds
C19_Witness ==
    /\ Len(voices) = 2
    /\ voices[1].t0 < voices[2].t0
    /\ voices[2].t0 < voices[1].stopAt
    /\ audioService.currentTime = voices[1].stopAt
    /\ ~voices[1].playing
    /\ ~voices[1].gainConnected
    /\ voices[2].playing

\* C20 (Spec): whenever audioReady is true the engine state is Running or
\* Suspended, and audioReady never goes back from true to false.
C20_UnlockedImpliesAcquired ==
    /\ [](audioReady => state \in {"running", "suspended"})
    /\ [][audioReady => audioReady']_vars

\* unlocked with the context suspended and no resume pending; a click in
\* that state made its trigger without calling init()
C20_Witness ==
    /\ audioReady
    /\ state = "suspended"
    /\ ~audioService.resumePending
    /\ last.op = "click"
    /\ ~last.init

====
